---- MODULE Spec2Model ----
(***************************************************************************)
(* Hypodermic::ComponentContext: the resolution engine.  Threads call      *)
(* resolve<T>() and resolveAll<T>() on one shared ComponentContext.  Each  *)
(* step below is one shared-memory operation of ComponentContext.h; the    *)
(* collaborators it calls (IRegistrationScope, the lifetime scope behind   *)
(* RegistrationContext::scope(), ActivationStack) follow spec.md.          *)
(***************************************************************************)
EXTENDS Integers, Sequences, FiniteSets, TLC

\* Number of top-level resolve<T>() / resolveAll<T>() calls issued in a run.
MaxCalls == 2

Threads == {"t1", "t2"}

\* A, B: autowireable, each other's constructor argument.  C: autowireable,
\* no argument.  N: not autowireable, never registered.  S: one singleton
\* registration whose factory resolves a T.  T: two registrations (a
\* singleton, then a transient one), autowireable as well.
Types == {"A", "B", "C", "N", "S", "T"}

\* nullptr; an instance handle is <<type, registration index, invocation>>.
Null == <<"null">>
NoThread == "none"
NoError == "none"
CyclicDependency == "cyclic"
ConstructionFailure == "failure"

Last(s) == s[Len(s)]
Pop(s) == SubSeq(s, 1, Len(s) - 1)

\* Mutant: the std::false_type overload of tryToRegisterType registers too.
AlwaysAutowireable(ty) == TRUE

\* Traits::HasAutowireableConstructor< T >
HasAutowireableConstructor(ty) == ty \in {"A", "B", "C", "T"}

\* Traits::ConstructorDescriptor< T >::describe(): the constructor arguments
\* the described factory resolves, in order.
ConstructorDependencies(ty) ==
    CASE ty = "A" -> <<"B">>
      [] ty = "B" -> <<"A">>
      [] OTHER -> <<>>

\* A RegistrationContext: the registration (deps, outcomes of its factory),
\* its lifetime scope (lifetime, instance = the cached handle) and two
\* counters of the factory's invocations and failures.
RegistrationContext(lifetime, deps, outcomes) ==
    [lifetime |-> lifetime, deps |-> deps, outcomes |-> outcomes,
     instance |-> Null, invoked |-> 0, failed |-> 0]

\* m_runtimeRegistrationBuilder->build(typeInfo, factory)
RuntimeRegistration(ty) ==
    RegistrationContext("transient", ConstructorDependencies(ty), {"make"})

\* The registration scope handed to the constructor.
InitialRegistry ==
    [ty \in Types |->
        CASE ty = "S" -> <<RegistrationContext("singleton", <<"T">>, {"make", "throw"})>>
          [] ty = "T" -> <<RegistrationContext("singleton", <<>>, {"make"}),
                           RegistrationContext("transient", <<>>, {"make", "decline", "throw"})>>
          [] OTHER -> <<>>]

VARIABLES
    registry,                \* m_registrationScope: type -> RegistrationContexts
    activationStack,         \* m_activationStack: <<type, index>> pairs
    activatedRegistrations,  \* m_activatedRegistrations
    owner, holds,            \* m_mutex (std::recursive_mutex)
    stack,                   \* per thread: the frames of its calls
    results,                 \* per thread: the outcomes of its finished calls
    calls                    \* number of top-level calls issued

vars == <<registry, activationStack, activatedRegistrations, owner, holds,
          stack, results, calls>>

\* The frame of one resolve<T>() or resolveAll<T>() call.
\*   attempt  the number of resolve(key) calls resolve<T>() has made
\*   n     the size of the vector tryGetRegistrations filled
\*   sel   the index of the RegistrationContext being resolved
\*   dep   the next constructor argument the factory resolves
Frame(op, ty) ==
    [op |-> op, ty |-> ty, pc |-> "lookup", attempt |-> 1, n |-> 0, sel |-> 0,
     dep |-> 1, inst |-> Null, err |-> NoError, acc |-> <<>>]

Top(t) == Last(stack[t])
Busy(t) == stack[t] # <<>>
At(t, pc) == Busy(t) /\ Top(t).pc = pc
SetTop(t, f) == [stack EXCEPT ![t] = [@ EXCEPT ![Len(@)] = f]]

Init ==
    /\ registry = InitialRegistry
    /\ activationStack = <<>>
    /\ activatedRegistrations = {}
    /\ owner = NoThread
    /\ holds = 0
    /\ stack = [t \in Threads |-> <<>>]
    /\ results = [t \in Threads |-> <<>>]
    /\ calls = 0

\* A caller enters resolve<T>() or resolveAll<T>().
Call(t, op, ty) ==
    /\ ~Busy(t)
    /\ calls < MaxCalls
    /\ calls' = calls + 1
    /\ stack' = [stack EXCEPT ![t] = <<Frame(op, ty)>>]
    /\ UNCHANGED <<registry, activationStack, activatedRegistrations, owner,
                   holds, results>>

\* Mutant: registrationContexts.front()
SelectFirst(n) == 1

\* registrationContexts.back()
SelectRegistration(n) == n

\* Mutant: resolveAll<T>() tests for nullptr and falls back as resolve<T>().
NotFoundFallsBack(op) == "check"

\* tryGetRegistrations found nothing: resolve(key) returns nullptr to
\* resolve<T>(), which tests it; resolveAll(key) returns the empty vector.
NotFound(op) == IF op = "resolve" THEN "check" ELSE "next"

\* resolve(typeAliasKey) / resolveAll(typeAliasKey): tryGetRegistrations and
\* the choice of the RegistrationContext to resolve.
Lookup(t) ==
    /\ At(t, "lookup")
    /\ LET f == Top(t)
           n == Len(registry[f.ty])
       IN  stack' = SetTop(t,
              IF n = 0
              THEN [f EXCEPT !.n = 0, !.inst = Null,
                             !.pc = NotFound(f.op)]
              ELSE [f EXCEPT !.n = n, !.pc = "lock",
                             !.sel = IF f.op = "resolve"
                                     THEN SelectRegistration(n) ELSE 1])
    /\ UNCHANGED <<registry, activationStack, activatedRegistrations, owner,
                   holds, results, calls>>

\* Mutant: a plain std::mutex, which its owner cannot lock again.
CanLockIfFree(t) == owner = NoThread

\* Mutant: resolve(key, registrationContext) takes no lock.
CanLockAlways(t) == TRUE

\* std::recursive_mutex::lock() succeeds for a free mutex and for its owner.
CanLock(t) == owner \in {NoThread, t}

\* std::lock_guard< decltype(m_mutex) > lock(m_mutex)
Lock(t) ==
    /\ At(t, "lock")
    /\ CanLock(t)
    /\ owner' = t
    /\ holds' = holds + 1
    /\ stack' = SetTop(t, [Top(t) EXCEPT !.pc = "enter"])
    /\ UNCHANGED <<registry, activationStack, activatedRegistrations, results,
                   calls>>

\* ActivationStack: the pair is searched, then pushed.
InActivation(key) == \E i \in 1..Len(activationStack) : activationStack[i] = key

\* Leaving getOrCreateComponent: the guard pops the pair; the memo of the
\* top-level resolution ends with its outermost activation.
Leave(memo) ==
    /\ activationStack' = Pop(activationStack)
    /\ activatedRegistrations' = IF Pop(activationStack) = <<>> THEN {} ELSE memo

\* scope.getOrCreateComponent(typeAliasKey, registration, resolutionContext):
\* cycle detection on entry.
Enter(t) ==
    /\ At(t, "enter")
    /\ LET f == Top(t)
           key == <<f.ty, f.sel>>
       IN  IF InActivation(key)
           THEN /\ stack' = SetTop(t, [f EXCEPT !.err = CyclicDependency, !.pc = "unlock"])
                /\ UNCHANGED activationStack
           ELSE /\ stack' = SetTop(t, [f EXCEPT !.pc = "activate"])
                /\ activationStack' = Append(activationStack, key)
    /\ UNCHANGED <<registry, activatedRegistrations, owner, holds, results, calls>>

\* What the lifetime scope can reuse for a registration: nothing when
\* transient; the memo's or the scope's own cached handle when singleton.
Reusable(key) ==
    LET rc == registry[key[1]][key[2]]
        memo == {m \in activatedRegistrations : m.key = key}
    IN  IF rc.lifetime # "singleton" THEN Null
        ELSE IF memo # {} THEN (CHOOSE m \in memo : TRUE).inst
        ELSE rc.instance

\* getOrCreateComponent: reuse the cached handle, or invoke the factory.
Activate(t) ==
    /\ At(t, "activate")
    /\ LET f == Top(t)
           key == <<f.ty, f.sel>>
       IN  IF Reusable(key) # Null
           THEN /\ stack' = SetTop(t, [f EXCEPT !.inst = Reusable(key), !.pc = "unlock"])
                /\ Leave(activatedRegistrations)
                /\ UNCHANGED registry
           ELSE /\ stack' = SetTop(t, [f EXCEPT !.dep = 1, !.pc = "factory"])
                /\ registry' = [registry EXCEPT ![f.ty][f.sel].invoked = @ + 1]
                /\ UNCHANGED <<activationStack, activatedRegistrations>>
    /\ UNCHANGED <<owner, holds, results, calls>>

\* The factory resolves its next constructor argument: c.resolve< TDependency >().
ResolveDependency(t) ==
    /\ At(t, "factory")
    /\ LET f == Top(t)
           deps == registry[f.ty][f.sel].deps
       IN  /\ f.err = NoError
           /\ f.dep <= Len(deps)
           /\ stack' = [stack EXCEPT ![t] = Append(@, Frame("resolve", deps[f.dep]))]
    /\ UNCHANGED <<registry, activationStack, activatedRegistrations, owner,
                   holds, results, calls>>

\* The factory ends: it makes an instance, declines (nullptr) or throws.
Produce(t, outcome) ==
    /\ At(t, "factory")
    /\ LET f == Top(t)
           key == <<f.ty, f.sel>>
           rc == registry[f.ty][f.sel]
           h == <<f.ty, f.sel, rc.invoked>>
       IN  /\ f.err = NoError
           /\ f.dep > Len(rc.deps)
           /\ outcome \in rc.outcomes
           /\ CASE outcome = "make" ->
                     /\ stack' = SetTop(t, [f EXCEPT !.inst = h, !.pc = "unlock"])
                     /\ registry' = IF rc.lifetime = "singleton"
                                    THEN [registry EXCEPT ![f.ty][f.sel].instance = h]
                                    ELSE registry
                     /\ Leave(IF rc.lifetime = "singleton"
                              THEN activatedRegistrations \cup {[key |-> key, inst |-> h]}
                              ELSE activatedRegistrations)
                [] outcome = "decline" ->
                     /\ stack' = SetTop(t, [f EXCEPT !.inst = Null, !.pc = "unlock"])
                     /\ registry' = registry
                     /\ Leave(activatedRegistrations)
                [] outcome = "throw" ->
                     /\ stack' = SetTop(t, [f EXCEPT !.err = ConstructionFailure, !.pc = "unlock"])
                     /\ registry' = [registry EXCEPT ![f.ty][f.sel].failed = @ + 1]
                     /\ Leave(activatedRegistrations)
    /\ UNCHANGED <<owner, holds, results, calls>>

\* Mutant: the pair stays on the ActivationStack when the factory fails.
AbortLeaking(t) ==
    /\ At(t, "factory")
    /\ LET f == Top(t)
       IN  /\ f.err # NoError
           /\ stack' = SetTop(t, [f EXCEPT !.pc = "unlock"])
           /\ registry' = [registry EXCEPT ![f.ty][f.sel].failed = @ + 1]
    /\ UNCHANGED <<activationStack, activatedRegistrations, owner, holds,
                   results, calls>>

\* The resolution of a constructor argument threw: the factory is left by
\* the exception.
Abort(t) ==
    /\ At(t, "factory")
    /\ LET f == Top(t)
       IN  /\ f.err # NoError
           /\ stack' = SetTop(t, [f EXCEPT !.pc = "unlock"])
           /\ registry' = [registry EXCEPT ![f.ty][f.sel].failed = @ + 1]
           /\ Leave(activatedRegistrations)
    /\ UNCHANGED <<owner, holds, results, calls>>

\* Mutant: a plain mutex, released by the first unlock.
ReleasedAtOnce(t) == NoThread

\* std::recursive_mutex::unlock(): the owner keeps the mutex until it has
\* unlocked as often as it locked.
Released(t) == IF holds = 1 THEN NoThread ELSE owner

\* Mutant: the mutex is unlocked on the normal return only, not when the
\* function is left by an exception.
UnlockOnSuccess(t) ==
    /\ At(t, "unlock")
    /\ holds' = IF Top(t).err = NoError THEN holds - 1 ELSE holds
    /\ owner' = IF Top(t).err = NoError THEN Released(t) ELSE owner
    /\ stack' = SetTop(t, [Top(t) EXCEPT
                    !.pc = IF Top(t).op = "resolve" THEN "check" ELSE "next"])
    /\ UNCHANGED <<registry, activationStack, activatedRegistrations, results,
                   calls>>

\* ~lock_guard
Unlock(t) ==
    /\ At(t, "unlock")
    /\ holds' = holds - 1
    /\ owner' = Released(t)
    /\ stack' = SetTop(t, [Top(t) EXCEPT
                    !.pc = IF Top(t).op = "resolve" THEN "check" ELSE "next"])
    /\ UNCHANGED <<registry, activationStack, activatedRegistrations, results,
                   calls>>

\* The public function returns `value` or is left by the exception `err`:
\* to the factory that asked for the argument, or to the top-level caller.
Deliver(t, value, err) ==
    LET d == Len(stack[t])
        f == Top(t)
    IN  IF d = 1
        THEN /\ stack' = [stack EXCEPT ![t] = <<>>]
             /\ results' = [results EXCEPT ![t] =
                    Append(@, [op |-> f.op, ty |-> f.ty, n |-> f.n, err |-> err,
                               value |-> value])]
        ELSE /\ stack' = [stack EXCEPT ![t] =
                    Append(SubSeq(@, 1, d - 2),
                           [@[d - 1] EXCEPT !.err = err,
                                            !.dep = IF err = NoError THEN @ + 1 ELSE @])]
             /\ UNCHANGED results

\* Mutant: resolve<T>() catches every exception and goes on.
Swallows(f) == FALSE

\* Mutant: resolve<T>() catches the cyclic-dependency error and goes on.
PropagatesFailureOnly(f) == f.err = ConstructionFailure

\* Mutant: resolve<T>() catches what a factory throws and goes on.
PropagatesCyclicOnly(f) == f.err = CyclicDependency

\* An exception passes through resolve< T >(): nothing catches it.
Propagates(f) == f.err # NoError

\* Mutant: the fallback is taken after every resolve(key), the retry too.
FallsBackRegardless(f) == TRUE

\* Mutant: resolve<T>() registers the type without testing the instance.
FallsBackAlways(f) == f.attempt = 1

\* resolve<T>(): `if (instance != nullptr) return instance;` failing sends
\* the first attempt to resolveIfTypeCanBeRegistered.
FallsBack(f) == f.inst = Null /\ f.attempt = 1

\* resolve<T>() returns: the instance found, or what the retry or
\* tryToRegisterType(scope, std::false_type) gave.
Return(t) ==
    /\ At(t, "check")
    /\ LET f == Top(t)
       IN  /\ Propagates(f) \/ ~FallsBack(f) \/ ~HasAutowireableConstructor(f.ty)
           /\ Deliver(t, IF Propagates(f) THEN Null ELSE f.inst,
                          IF Propagates(f) THEN f.err ELSE NoError)
    /\ UNCHANGED <<registry, activationStack, activatedRegistrations, owner,
                   holds, calls>>

\* resolveIfTypeCanBeRegistered: tryToRegisterType(scope, std::true_type)
\* adds the runtime registration, then resolve(key) runs again.
Register(t) ==
    /\ At(t, "check")
    /\ LET f == Top(t)
       IN  /\ ~Propagates(f)
           /\ FallsBack(f)
           /\ HasAutowireableConstructor(f.ty)
           /\ registry' = [registry EXCEPT ![f.ty] = Append(@, RuntimeRegistration(f.ty))]
           /\ stack' = SetTop(t, [f EXCEPT !.attempt = @ + 1, !.pc = "lookup"])
    /\ UNCHANGED <<activationStack, activatedRegistrations, owner, holds,
                   results, calls>>

\* Mutant: the instance is put in front.
PushFront(instances, inst) == <<inst>> \o instances

\* instances.push_back(...)
PushBack(instances, inst) == Append(instances, inst)

\* resolveAll: instances.push_back(resolve< T >(key, registrationContext)),
\* then the next RegistrationContext of the vector.
NextElement(t) ==
    /\ At(t, "next")
    /\ LET f == Top(t)
       IN  /\ f.err = NoError
           /\ f.sel < f.n
           /\ stack' = SetTop(t, [f EXCEPT !.acc = PushBack(@, f.inst), !.inst = Null,
                                          !.sel = @ + 1, !.pc = "lock"])
    /\ UNCHANGED <<registry, activationStack, activatedRegistrations, owner,
                   holds, results, calls>>

\* resolveAll<T>() returns the vector (empty when tryGetRegistrations found
\* nothing) or is left by an exception.
ReturnAll(t) ==
    /\ At(t, "next")
    /\ LET f == Top(t)
       IN  /\ f.err # NoError \/ f.sel = f.n
           /\ Deliver(t, IF f.err # NoError THEN <<>>
                         ELSE IF f.n = 0 THEN <<>>
                         ELSE PushBack(f.acc, f.inst), f.err)
    /\ UNCHANGED <<registry, activationStack, activatedRegistrations, owner,
                   holds, calls>>

Step(t) ==
    \/ Lookup(t)
    \/ Lock(t)
    \/ Enter(t)
    \/ Activate(t)
    \/ ResolveDependency(t)
    \/ \E o \in {"make", "decline", "throw"} : Produce(t, o)
    \/ Abort(t)
    \/ Unlock(t)
    \/ Return(t)
    \/ Register(t)
    \/ NextElement(t)
    \/ ReturnAll(t)

Next ==
    \/ \E t \in Threads, ty \in Types : Call(t, "resolve", ty)
    \/ \E t \in Threads, ty \in Types : Call(t, "resolveAll", ty)
    \/ \E t \in Threads : Step(t)

Spec == Init /\ [][Next]_vars

\* Sequential callers: a call is issued only when no call is in progress.
Idle == \A t \in Threads : ~Busy(t)

NextSeq ==
    \/ \E t \in Threads, ty \in Types : Idle /\ Call(t, "resolve", ty)
    \/ \E t \in Threads, ty \in Types : Idle /\ Call(t, "resolveAll", ty)
    \/ \E t \in Threads : Step(t)

SpecSeq == Init /\ [][NextSeq]_vars

\* Every thread that can take a step of its call eventually takes one: the
\* scheduler runs each thread, and a thread waiting in lock() gets the mutex
\* once it stays free.
\* The callers resolve the types whose production nests, fails or falls
\* back, and ask for all instances of the type registered twice.
FairTypes == {"A", "N", "S"}
FairAllTypes == {"T"}

NextFair ==
    \/ \E t \in Threads, ty \in FairTypes : Call(t, "resolve", ty)
    \/ \E t \in Threads, ty \in FairAllTypes : Call(t, "resolveAll", ty)
    \/ \E t \in Threads : Step(t)

FairSpec == Init /\ [][NextFair]_vars /\ \A t \in Threads : WF_vars(Step(t))

(***************************************************************************)
(* Properties                                                              *)
(***************************************************************************)

\* The finished top-level calls and the frames in progress.
Finished == {p \in Threads \X (1..MaxCalls + 1) : p[2] <= Len(results[p[1]])}
Res(p) == results[p[1]][p[2]]
Frames == UNION {{stack[t][i] : i \in 1..Len(stack[t])} : t \in Threads}
Registered == UNION {{<<ty, i>> : i \in 1..Len(registry[ty])} : ty \in Types}
Rc(key) == registry[key[1]][key[2]]
Got(r, op, ty) == r.op = op /\ r.ty = ty
Resolved(r, op, ty) == Got(r, op, ty) /\ r.err = NoError /\ r.value # Null

\* Types with exactly one registration, of the singleton policy.
SingletonTypes ==
    {ty \in Types : Len(registry[ty]) = 1 /\ registry[ty][1].lifetime = "singleton"}

\* C1: for a type with exactly one singleton registration, the factory is
\* invoked once (a further invocation only follows a failed one), and every
\* resolve of any thread returns the one cached handle (unless the factory
\* failed, no resolve ends with an error).
C1_SingletonResolvedOnce ==
    \A ty \in SingletonTypes :
        LET rc == registry[ty][1]
        IN  /\ rc.failed = 0 => rc.invoked <= 1
            /\ rc.invoked <= rc.failed + 1
            /\ \A p \in Finished :
                  Got(Res(p), "resolve", ty) =>
                      /\ rc.failed = 0 => Res(p).err = NoError
                      /\ Res(p).err = NoError =>
                            /\ Res(p).value # Null
                            /\ Res(p).value = rc.instance
                            /\ rc.invoked = rc.failed + 1

\* Both threads resolved S, the factory never failed and ran once.
C1_Witness ==
    /\ \A t \in Threads : \E i \in 1..Len(results[t]) : Resolved(results[t][i], "resolve", "S")
    /\ registry["S"][1].failed = 0
    /\ registry["S"][1].invoked = 1

\* C2: resolve<T>() returns an instance made by the last of the n
\* registrations it found; resolveAll<T>() returns n elements, the i-th made
\* by the i-th registration.
C2_LastRegistrationWins ==
    \A p \in Finished :
        LET r == Res(p)
        IN  r.err = NoError =>
              /\ r.n <= Len(registry[r.ty])
              /\ r.op = "resolve" /\ r.value # Null =>
                    r.value[1] = r.ty /\ r.value[2] = r.n
              /\ r.op = "resolveAll" =>
                    /\ Len(r.value) = r.n
                    /\ \A i \in 1..r.n :
                          r.value[i] # Null =>
                              r.value[i][1] = r.ty /\ r.value[i][2] = i

\* A thread resolved T through R2 of R1, R2, then got both from resolveAll.
C2_Witness ==
    \E t \in Threads :
        /\ Len(results[t]) = 2
        /\ Resolved(results[t][1], "resolve", "T")
        /\ results[t][1].n = 2
        /\ results[t][1].value[2] = 2
        /\ Got(results[t][2], "resolveAll", "T")
        /\ results[t][2].err = NoError
        /\ Len(results[t][2].value) = 2
        /\ \A i \in 1..2 : results[t][2].value[i] # Null

NoDuplicates(s) == \A i, j \in 1..Len(s) : s[i] = s[j] => i = j

\* C3: resolving the mutually dependent A or B ends with the
\* cyclic-dependency error: a frame holding an error only unwinds, no pair is
\* active twice, so the recursion is bounded by the registrations; the
\* ActivationStack is empty whenever the mutex is free, and no other type
\* ever gets the cyclic-dependency error.
C3_CycleRejected ==
    /\ \A p \in Finished :
          /\ Res(p).op = "resolve" /\ Res(p).ty \in {"A", "B"} =>
                Res(p).err = CyclicDependency
          /\ Res(p).ty \notin {"A", "B"} => Res(p).err # CyclicDependency
    /\ \A f \in Frames : f.err # NoError => f.pc \in {"factory", "unlock", "check", "next"}
    /\ NoDuplicates(activationStack)
    /\ \A i \in 1..Len(activationStack) : activationStack[i] \in Registered
    /\ \A t \in Threads : Len(stack[t]) <= Len(activationStack) + 1
    /\ owner = NoThread => activationStack = <<>>

\* resolve<A>() failed with the cyclic-dependency error and the same
\* thread's next call resolved a registered type.
C3_Witness ==
    \E t \in Threads :
        /\ Len(results[t]) = 2
        /\ Got(results[t][1], "resolve", "A")
        /\ results[t][1].err = CyclicDependency
        /\ results[t][2].ty \in {"S", "T"}
        /\ Resolved(results[t][2], "resolve", results[t][2].ty)
        /\ activationStack = <<>>

\* C4: resolve<N>() of the unregistered, not autowireable N returns nullptr
\* without an error, and no step of the call changes the registry, a cached
\* instance, the ActivationStack, the memo or the mutex.
C4_Returned ==
    /\ registry["N"] = <<>>
    /\ \A p \in Finished :
          Got(Res(p), "resolve", "N") => Res(p).err = NoError /\ Res(p).value = Null

C4_Frame ==
    \A t \in Threads :
        (/\ Busy(t)
         /\ Got(stack[t][1], "resolve", "N")
         /\ stack'[t] # stack[t]) =>
            UNCHANGED <<registry, activationStack, activatedRegistrations, owner, holds>>

C4_NotRegistered == []C4_Returned /\ [][C4_Frame]_vars

\* resolve<N>() has returned.
C4_Witness == \E p \in Finished : Got(Res(p), "resolve", "N") /\ Res(p).value = Null

\* C5: with sequential callers, the registry never holds more than one
\* registration of the autowireable C; every resolve<C>() returns an instance
\* and leaves exactly one; a later resolveAll<C>() returns one element.
C5_AutoRegisteredOnce ==
    /\ Len(registry["C"]) <= 1
    /\ \A p \in Finished :
          /\ Got(Res(p), "resolve", "C") =>
                /\ Res(p).err = NoError
                /\ Res(p).value # Null
                /\ Len(registry["C"]) = 1
          /\ Got(Res(p), "resolveAll", "C") =>
                Res(p).err = NoError /\ Len(Res(p).value) = Res(p).n
    /\ \A t \in Threads : \A i, j \in 1..Len(results[t]) :
          (i < j /\ Got(results[t][i], "resolve", "C")
                 /\ Got(results[t][j], "resolveAll", "C")) =>
              Len(results[t][j].value) = 1

\* resolve<C>() auto-registered C; resolveAll<C>() then returned one element.
C5_Witness ==
    \E t \in Threads :
        /\ Len(results[t]) = 2
        /\ Resolved(results[t][1], "resolve", "C")
        /\ Got(results[t][2], "resolveAll", "C")
        /\ Len(results[t][2].value) = 1
        /\ Len(registry["C"]) = 1

\* The call found n registrations, the last of them transient.
TransientResult(r) ==
    /\ r.op = "resolve"
    /\ r.err = NoError
    /\ r.value # Null
    /\ r.n >= 1
    /\ registry[r.ty][r.n].lifetime = "transient"

\* C6: the instances that resolve<T>() calls returned for a type whose
\* selected registration is transient are pairwise distinct, each the product
\* of an invocation of its own.
C6_TransientDistinct ==
    \A p \in Finished :
        TransientResult(Res(p)) =>
            /\ Res(p).value[3] \in 1..registry[Res(p).ty][Res(p).n].invoked
            /\ \A q \in Finished :
                  (q # p /\ TransientResult(Res(q)) /\ Res(q).ty = Res(p).ty) =>
                      Res(q).value # Res(p).value

\* Two consecutive resolve<T>() calls of a thread, both through transient R2.
C6_Witness ==
    \E t \in Threads :
        /\ Len(results[t]) = 2
        /\ \A i \in 1..2 : Got(results[t][i], "resolve", "T")
                           /\ TransientResult(results[t][i])
                           /\ results[t][i].n = 2
        /\ results[t][1].value # results[t][2].value

\* The number of registrations of each type.
Shape == [ty \in Types |-> Len(registry[ty])]

\* C7: resolveAll<T>() that finds no registration returns the empty vector,
\* and no step of a resolveAll<T>() call adds a registration.
C7_Returned ==
    \A p \in Finished :
        Res(p).op = "resolveAll" /\ Res(p).n = 0 =>
            Res(p).err = NoError /\ Res(p).value = <<>>

C7_Frame ==
    \A t \in Threads :
        (Busy(t) /\ Top(t).op = "resolveAll" /\ stack'[t] # stack[t]) => Shape' = Shape

C7_NoAutoRegistration == []C7_Returned /\ [][C7_Frame]_vars

\* resolveAll<C>() returned empty for the autowireable, still unregistered C.
C7_Witness ==
    /\ \E p \in Finished : Got(Res(p), "resolveAll", "C") /\ Res(p).value = <<>>
    /\ HasAutowireableConstructor("C")
    /\ registry["C"] = <<>>

Failures(ty) == {p \in Finished : Res(p).ty = ty /\ Res(p).err = ConstructionFailure}

RECURSIVE SumFailed(_)
SumFailed(rcs) == IF rcs = <<>> THEN 0 ELSE Head(rcs).failed + SumFailed(Tail(rcs))

\* C8: a frame holding a construction failure only unwinds (no fallback, no
\* retry) and its pair has left the ActivationStack before the mutex is
\* released; a singleton caches only
\* the product of its last, successful invocation; every failure of a factory
\* reaches a top-level caller; a resolve after a failed one invokes the
\* factory again.
C8_FailurePropagates ==
    /\ \A f \in Frames :
          f.err = ConstructionFailure =>
              /\ f.pc \in {"factory", "unlock", "check", "next"}
              /\ f.pc = "unlock" => ~InActivation(<<f.ty, f.sel>>)
              /\ f.inst = Null
    /\ \A key \in Registered :
          Rc(key).lifetime = "singleton" =>
              IF Rc(key).instance # Null
              THEN /\ Rc(key).instance = <<key[1], key[2], Rc(key).invoked>>
                   /\ Rc(key).failed = Rc(key).invoked - 1
              ELSE Rc(key).invoked - Rc(key).failed \in {0, 1}
    /\ Idle =>
          /\ registry["S"][1].failed = Cardinality(Failures("S"))
          /\ SumFailed(registry["T"]) >= Cardinality(Failures("T"))
          /\ SumFailed(registry["T"]) <= Cardinality(Failures("T") \cup Failures("S"))
    /\ \A t \in Threads : \A i, j \in 1..Len(results[t]) :
          (/\ i < j
           /\ Got(results[t][i], "resolve", "S")
           /\ results[t][i].err = ConstructionFailure
           /\ Got(results[t][j], "resolve", "S")) =>
              registry["S"][1].invoked >= 2

\* resolve<S>() failed in the factory; the thread's next resolve<S>() ran the
\* factory again and got the instance.
C8_Witness ==
    \E t \in Threads :
        /\ Len(results[t]) = 2
        /\ Got(results[t][1], "resolve", "S")
        /\ results[t][1].err = ConstructionFailure
        /\ Resolved(results[t][2], "resolve", "S")
        /\ registry["S"][1].invoked = 2
        /\ activationStack = <<>>

\* The thread is inside getOrCreateComponent (a factory included).
InFactory(t) == \E i \in 1..Len(stack[t]) : stack[t][i].pc \in {"enter", "activate", "factory"}

\* C9: at most one thread is inside getOrCreateComponent or a factory, and
\* it owns the mutex.
C9_MutualExclusion ==
    \A t \in Threads :
        InFactory(t) =>
            /\ owner = t
            /\ holds >= 1
            /\ \A u \in Threads : InFactory(u) => u = t

\* One thread is in a factory while the other waits for the mutex.
C9_Witness ==
    \E t, u \in Threads :
        /\ t # u
        /\ At(t, "factory")
        /\ At(u, "lock")
        /\ ~CanLock(u)

\* C10: the registry never holds two registrations of the autowireable C,
\* which nothing registers but resolve<C>() itself.
C10_SingleAutoRegistration == Len(registry["C"]) <= 1

\* C11: when a resolve<T>() call holds the mutex and is about to enter
\* getOrCreateComponent, the RegistrationContext it selected is the last one
\* registered for T.
C11_SelectedUnderLock ==
    \A t \in Threads : \A i \in 1..Len(stack[t]) :
        (stack[t][i].op = "resolve" /\ stack[t][i].pc = "enter") =>
            stack[t][i].sel = Len(registry[stack[t][i].ty])

\* C12: resolve<T>() goes to the auto-registration fallback (and its second
\* lookup) only after a lookup that found no registration.
C12_FallbackOnlyWhenUnregistered ==
    \A f \in Frames : (f.op = "resolve" /\ f.attempt >= 2 /\ f.pc = "lookup") => f.n = 0

\* The top-level resolve<C>() calls issued so far (C is nobody's constructor
\* argument).
CallsOfC ==
    Cardinality({p \in Finished : Got(Res(p), "resolve", "C")}) +
    Cardinality({t \in Threads : Busy(t) /\ Got(stack[t][1], "resolve", "C")})

Reentrant ==
    \A t \in Threads :
        (At(t, "lock") /\ Len(stack[t]) > 1) => (owner = t /\ holds >= 1 /\ CanLock(t))

\* C14: a resolve called from a factory re-acquires the mutex its thread
\* owns without blocking, and under fair scheduling every call in progress
\* returns.
C14_Progress ==
    /\ []Reentrant
    /\ \A t \in Threads : Busy(t) ~> ~Busy(t)

\* A factory's resolve re-acquired the mutex while the other thread waits.
C14_Witness ==
    \E t, u \in Threads :
        /\ t # u
        /\ Len(stack[t]) > 1
        /\ Top(t).pc \in {"enter", "activate", "factory"}
        /\ holds >= 2
        /\ At(u, "lock")

\* The productions in progress: the frames between the push and the pop of
\* their pair.
InProduction ==
    UNION {{<<t, i>> : i \in {j \in 1..Len(stack[t]) :
                                stack[t][j].pc \in {"activate", "factory"}}} :
           t \in Threads}

\* C15: the ActivationStack holds one pair per production in progress, and
\* none when no resolve or resolveAll call is in progress.
C15_StackMatchesDepth ==
    /\ Len(activationStack) = Cardinality(InProduction)
    /\ Idle => activationStack = <<>>

\* After a call that failed in a factory, a nested production is in progress.
C15_Witness ==
    \E t \in Threads :
        /\ \E p \in Finished : Res(p).err = ConstructionFailure
        /\ Len(stack[t]) = 2
        /\ At(t, "factory")
        /\ Len(activationStack) = 2

\* The registrations of the singleton policy.
Singletons == {key \in Registered : Rc(key).lifetime = "singleton"}

\* C16: the element resolveAll<T>() returns for a singleton registration is
\* the instance the lifetime scope caches for it, the one every resolve<T>()
\* that selected the registration returns; its factory is invoked again only
\* after it failed.
C16_ResolveAllSharesSingleton ==
    \A key \in Singletons :
        /\ Rc(key).invoked <= Rc(key).failed + 1
        /\ \A p \in Finished :
              LET r == Res(p)
              IN  (r.ty = key[1] /\ r.err = NoError) =>
                    /\ (r.op = "resolveAll" /\ key[2] <= r.n) =>
                          r.value[key[2]] # Null /\ r.value[key[2]] = Rc(key).instance
                    /\ (r.op = "resolve" /\ key[2] = r.n) =>
                          r.value # Null /\ r.value = Rc(key).instance
        /\ \A f \in Frames :
              (f.op = "resolveAll" /\ f.ty = key[1] /\ key[2] <= Len(f.acc)) =>
                  f.acc[key[2]] = Rc(key).instance

\* resolve<S>() and resolveAll<S>() returned the one instance of S, made by
\* the one invocation of its factory.
C16_Witness ==
    \E p, q \in Finished :
        /\ Resolved(Res(p), "resolve", "S")
        /\ Got(Res(q), "resolveAll", "S")
        /\ Res(q).err = NoError
        /\ Res(q).value = <<Res(p).value>>
        /\ registry["S"][1].invoked = 1

\* The pairs thread t has pushed and not yet popped, outermost first.
ActivationsOf(t) ==
    [i \in 1..Cardinality({p \in InProduction : p[1] = t}) |->
        <<stack[t][i].ty, stack[t][i].sel>>]

\* C17: the ActivationStack holds exactly the pairs of the productions in
\* progress on the thread that owns the mutex, and nothing when the mutex is
\* free; resolving a type other than the mutually dependent A and B never
\* meets the cyclic-dependency error.
C17_StackOwnedByHolder ==
    /\ activationStack # <<>> => owner # NoThread
    /\ \A t \in Threads :
          IF owner = t THEN activationStack = ActivationsOf(t)
          ELSE ActivationsOf(t) = <<>>
    /\ \A f \in Frames : f.ty \notin {"A", "B"} => f.err # CyclicDependency
    /\ \A p \in Finished : Res(p).ty \notin {"A", "B"} => Res(p).err # CyclicDependency

\* Both threads are resolving S: one is making T for the factory of S, the
\* other waits for the mutex.
C17_Witness ==
    \E t, u \in Threads :
        /\ t # u
        /\ Len(stack[t]) = 2
        /\ At(t, "factory")
        /\ Got(stack[t][1], "resolve", "S")
        /\ activationStack = <<<<"S", 1>>, <<"T", 2>>>>
        /\ Len(stack[u]) = 1
        /\ Got(stack[u][1], "resolve", "S")
        /\ At(u, "lock")

\* The lock_guards alive on thread t: its frames between lock and unlock.
Guards(t) ==
    Cardinality({i \in 1..Len(stack[t]) :
                    stack[t][i].pc \in {"enter", "activate", "factory", "unlock"}})

\* The hold count of the mutex is the number of lock_guards alive on its
\* owner, and no other thread has one: a call that has ended, with an error
\* or not, holds nothing.
HoldsMatchGuards ==
    /\ owner = NoThread <=> holds = 0
    /\ \A t \in Threads :
          /\ Guards(t) = IF owner = t THEN holds ELSE 0
          /\ ~Busy(t) => owner # t

\* C18: the mutex is unlocked on every exit path, so its hold count is that
\* of the resolves still in progress, and a thread waiting for the mutex
\* eventually acquires it and its call completes.
C18_Released ==
    /\ []HoldsMatchGuards
    /\ \A u \in Threads : (At(u, "lock") /\ owner \notin {NoThread, u}) ~> ~Busy(u)

\* resolve<S>() of one thread ended with the failure of the nested factory
\* of T; the mutex is free and the other thread's first call waits to lock.
C18_Witness ==
    \E t, u \in Threads :
        /\ t # u
        /\ ~Busy(t)
        /\ Len(results[t]) = 1
        /\ Got(results[t][1], "resolve", "S")
        /\ results[t][1].err = ConstructionFailure
        /\ registry["T"][2].failed = 1
        /\ owner = NoThread
        /\ holds = 0
        /\ results[u] = <<>>
        /\ At(u, "lock")

\* C19: with sequential callers, every resolve<A>() and resolve<B>() ends
\* with the cyclic-dependency error and leaves exactly one registration of A
\* and one of B, however often the calls are repeated.
C19_CycleRegistersOnce ==
    /\ Len(registry["A"]) <= 1
    /\ Len(registry["B"]) <= 1
    /\ \A p \in Finished :
          (Res(p).op = "resolve" /\ Res(p).ty \in {"A", "B"}) =>
              /\ Res(p).err = CyclicDependency
              /\ Res(p).value = Null
              /\ Len(registry["A"]) = 1
              /\ Len(registry["B"]) = 1
    /\ \A t \in Threads :
          (At(t, "check") /\ Len(stack[t]) = 1 /\ Top(t).op = "resolve"
                          /\ Top(t).ty \in {"A", "B"} /\ Top(t).attempt = 2) =>
              Top(t).err = CyclicDependency

\* resolve<A>() failed with the cyclic-dependency error, then resolve<B>()
\* failed the same way; the registry holds one registration of each.
C19_Witness ==
    \E t \in Threads :
        /\ Len(results[t]) = 2
        /\ Got(results[t][1], "resolve", "A")
        /\ Got(results[t][2], "resolve", "B")
        /\ results[t][1].err = CyclicDependency
        /\ results[t][2].err = CyclicDependency
        /\ results[t][2].n = 1
        /\ Len(registry["A"]) = 1
        /\ Len(registry["B"]) = 1

====
